---- MODULE Spec2Model ----
(***************************************************************************)
(* A model of _run_in_parallel of dev_scripts/update_to_aas_core_meta_     *)
(* codegen.py: the supervisor launches one process per call, polls the     *)
(* handles in two sweeps per tick, terminates everything on the first      *)
(* failure it sees in the first sweep, and cleans up in a finally block.   *)
(* The launched processes are OS processes that exit on their own          *)
(* schedule, interleaved with every step of the supervisor.                *)
(***************************************************************************)
EXTENDS Integers, Sequences, FiniteSets, TLC

\* The largest batch that is explored.
MaxTasks == 3

\* The tick count is remembered up to this many ticks.
MaxTicks == 2

\* subprocess.Popen.returncode of a process killed by terminate() is
\* the negated number of SIGTERM.
SIGTERM == 15

\* Python's None, and a present integer value c, kept apart by shape.
None == << >>

Some(c) == << c >>

\* What a call of the input sequence does: the launcher raises, or it
\* spawns a process that exits with status zero, exits with a non-zero
\* status, or never exits on its own.
Behaviours == {"zero", "nonzero", "forever", "raise"}

VARIABLES
    calls,              \* the input sequence of launchers
    on_status_raises,   \* whether on_status_update raises when it is called
    pc,                 \* position of the supervisor in _run_in_parallel
    idx,                \* position of the running for-loop
    procs,              \* the list of Popen handles
    os,                 \* the operating system's view of each process
    failure,            \* the local variable failure
    remaining_procs,    \* the local variable remaining_procs
    result,             \* the value given to return
    exc,                \* the exception that leaves the function, if any
    last_report,        \* the argument of the latest on_status_update call
    launches,           \* how many launchers have been called
    polled,             \* whether the supervisor has polled any handle
    swept,              \* the handles polled so far in the current first sweep
    ticks,              \* how many loop iterations have begun, up to MaxTicks
    call_log,           \* the positions in calls of the launchers called, in call order
    main_pc,            \* position of main of update_to_aas_core_meta_codegen
    main_passed,        \* the stages of that main that have succeeded, in order
    main_result,        \* the value that main returns
    main_exc,           \* whether an exception has left that main
    pushed,             \* whether the branch was created, committed and pushed
    args_select,        \* precommit: the parsed --select
    args_skip,          \* precommit: the parsed --skip
    overwrite,          \* precommit: the parsed --overwrite
    doctest_files,      \* precommit: how many modules hold a doctest
    p_pc,               \* precommit: position of main
    p_step,             \* precommit: the step that main is at
    p_cmd,              \* precommit: the command of the step that comes next
    executed,           \* precommit: the steps whose commands were started
    cmd_log,            \* precommit: the commands run, with their exit codes
    exit_code,          \* precommit: the local variable exit_code
    p_result            \* precommit: the value that main returns

\* The state of main of update_to_aas_core_meta_codegen.py.
main_vars == << main_pc, main_passed, main_result, main_exc, pushed >>

\* The state of main of precommit.py.
precommit_vars == << args_select, args_skip, overwrite, doctest_files, p_pc,
                     p_step, p_cmd, executed, cmd_log, exit_code, p_result >>

vars == << calls, on_status_raises, pc, idx, procs, os, failure,
           remaining_procs, result, exc, last_report, launches, polled,
           swept, ticks, call_log, main_vars, precommit_vars >>

\* The handle that Popen(...) returns: nothing is known of the exit status.
NewPopen == [returncode |-> None, terminate_calls |-> 0]

\* The process table entry of a call that has not been launched.
NotStarted == [state |-> "notstarted", exitcode |-> 0, signals |-> 0]

Handles == 1..Len(procs)

\* sum(1 for proc in procs if proc.returncode is None)
CountRunning(ps) == Cardinality({i \in 1..Len(ps) : ps[i].returncode = None})

\* Popen.poll(): reads the exit status once the process has exited, and
\* keeps the status it has read.
PollHandle(p, o) ==
    IF p.returncode = None /\ o.state = "exited"
    THEN [p EXCEPT !.returncode = Some(o.exitcode)]
    ELSE p

\* Popen.terminate(): polls, and signals the process only if it is not
\* known to have exited.
TerminateHandle(p, o) ==
    [PollHandle(p, o) EXCEPT !.terminate_calls = @ + 1]

TerminateProcess(p, o) ==
    IF PollHandle(p, o).returncode = None
    THEN [o EXCEPT !.signals = @ + 1]
    ELSE o

\* main of update_to_aas_core_meta_codegen.py is not running.
MainIdle ==
    /\ main_pc = "idle"
    /\ main_passed = << >>
    /\ main_result = None
    /\ main_exc = FALSE
    /\ pushed = FALSE

\* main of precommit.py is not running.
PrecommitIdle ==
    /\ args_select = None
    /\ args_skip = None
    /\ overwrite = FALSE
    /\ doctest_files = 0
    /\ p_pc = "idle"
    /\ p_step = 1
    /\ p_cmd = 1
    /\ executed = {}
    /\ cmd_log = << >>
    /\ exit_code = 0
    /\ p_result = None

\* _run_in_parallel is called on its own.
Init ==
    /\ MainIdle
    /\ PrecommitIdle
    /\ calls \in UNION {[1..n -> Behaviours] : n \in 0..MaxTasks}
    /\ on_status_raises \in BOOLEAN
    /\ pc = "launch"
    /\ idx = 1
    /\ procs = << >>
    /\ os = [i \in 1..Len(calls) |-> NotStarted]
    /\ failure = FALSE
    /\ remaining_procs = 0
    /\ result = None
    /\ exc = "none"
    /\ last_report = None
    /\ launches = 0
    /\ polled = FALSE
    /\ swept = {}
    /\ ticks = 0
    /\ call_log = << >>

\* for call in calls: proc = call(); procs.append(proc)
Launch ==
    /\ pc = "launch"
    /\ idx <= Len(calls)
    /\ calls[idx] # "raise"
    /\ procs' = Append(procs, NewPopen)
    /\ os' = [os EXCEPT ![idx].state = "running"]
    /\ launches' = launches + 1
    /\ call_log' = Append(call_log, idx)
    /\ idx' = idx + 1
    /\ UNCHANGED << main_vars, precommit_vars, calls, ticks, on_status_raises, pc, failure, remaining_procs,
                    result, exc, last_report, polled, swept >>

\* A launcher error that leaves without running the cleanup.
LaunchRaises_NoCleanup ==
    /\ pc = "launch"
    /\ idx <= Len(calls)
    /\ calls[idx] = "raise"
    /\ launches' = launches + 1
    /\ call_log' = Append(call_log, idx)
    /\ exc' = "launch"
    /\ pc' = "done"
    /\ idx' = 1
    /\ UNCHANGED << main_vars, precommit_vars, calls, ticks, on_status_raises, procs, os, failure,
                    remaining_procs, result, last_report, polled, swept >>

\* call() raises: control passes to the finally block.
LaunchRaises ==
    /\ pc = "launch"
    /\ idx <= Len(calls)
    /\ calls[idx] = "raise"
    /\ launches' = launches + 1
    /\ call_log' = Append(call_log, idx)
    /\ exc' = "launch"
    /\ pc' = "finally"
    /\ idx' = 1
    /\ UNCHANGED << main_vars, precommit_vars, calls, ticks, on_status_raises, procs, os, failure,
                    remaining_procs, result, last_report, polled, swept >>

\* A supervisor that starts to poll as soon as one task is launched.
EnterLoop_Early ==
    /\ pc = "launch"
    /\ idx > 1 \/ idx > Len(calls)
    /\ failure' = FALSE
    /\ remaining_procs' = CountRunning(procs)
    /\ pc' = "while"
    /\ UNCHANGED << main_vars, precommit_vars, calls, ticks, on_status_raises, idx, procs, os, result, exc,
                    last_report, launches, call_log, polled, swept >>

\* failure = False; remaining_procs = sum(...); next_print = ...
EnterLoop ==
    /\ pc = "launch"
    /\ idx > Len(calls)
    /\ failure' = FALSE
    /\ remaining_procs' = CountRunning(procs)
    /\ pc' = "while"
    /\ UNCHANGED << main_vars, precommit_vars, calls, ticks, on_status_raises, idx, procs, os, result, exc,
                    last_report, launches, call_log, polled, swept >>

\* A loop test that lets the body run once more than the count allows.
WhileTest_AtLeastOnce ==
    /\ pc = "while"
    /\ IF remaining_procs >= 0
       THEN /\ pc' = "report"
            /\ ticks' = IF ticks < MaxTicks THEN ticks + 1 ELSE ticks
            /\ UNCHANGED << result, idx >>
       ELSE /\ result' = None
            /\ pc' = "finally"
            /\ idx' = 1
            /\ UNCHANGED ticks
    /\ UNCHANGED << main_vars, precommit_vars, calls, on_status_raises, procs, os, failure,
                    remaining_procs, exc, last_report, launches, call_log, polled,
                    swept >>

\* while remaining_procs > 0: ... ; return None
WhileTest ==
    /\ pc = "while"
    /\ IF remaining_procs > 0
       THEN /\ pc' = "report"
            /\ ticks' = IF ticks < MaxTicks THEN ticks + 1 ELSE ticks
            /\ UNCHANGED << result, idx >>
       ELSE /\ result' = None
            /\ pc' = "finally"
            /\ idx' = 1
            /\ UNCHANGED ticks
    /\ UNCHANGED << main_vars, precommit_vars, calls, on_status_raises, procs, os, failure,
                    remaining_procs, exc, last_report, launches, call_log, polled,
                    swept >>

\* if time.time() > next_print: on_status_update(remaining_procs)
StatusUpdate ==
    /\ pc = "report"
    /\ ~on_status_raises
    /\ last_report' = Some(remaining_procs)
    /\ pc' = "reported"
    /\ UNCHANGED << main_vars, precommit_vars, calls, ticks, on_status_raises, idx, procs, os, failure,
                    remaining_procs, result, exc, launches, call_log, polled, swept >>

\* on_status_update(remaining_procs) raises.
StatusUpdateRaises ==
    /\ pc = "report"
    /\ on_status_raises
    /\ last_report' = Some(remaining_procs)
    /\ exc' = "callback"
    /\ pc' = "finally"
    /\ idx' = 1
    /\ UNCHANGED << main_vars, precommit_vars, calls, ticks, on_status_raises, procs, os, failure,
                    remaining_procs, result, launches, call_log, polled, swept >>

\* The 15 seconds have not passed: nothing is reported in this tick.
SkipStatusUpdate ==
    /\ pc = "report"
    /\ pc' = "sleep"
    /\ UNCHANGED << main_vars, precommit_vars, calls, ticks, on_status_raises, idx, procs, os, failure,
                    remaining_procs, result, exc, last_report, launches, call_log,
                    polled, swept >>

\* next_print = time.time() + 15
ResetNextPrint ==
    /\ pc = "reported"
    /\ pc' = "sleep"
    /\ UNCHANGED << main_vars, precommit_vars, calls, ticks, on_status_raises, idx, procs, os, failure,
                    remaining_procs, result, exc, last_report, launches, call_log,
                    polled, swept >>

\* time.sleep(1)
Sleep ==
    /\ pc = "sleep"
    /\ pc' = "poll1"
    /\ idx' = 1
    /\ swept' = {}
    /\ UNCHANGED << main_vars, precommit_vars, calls, ticks, on_status_raises, procs, os, failure,
                    remaining_procs, result, exc, last_report, launches, call_log,
                    polled >>

\* A first sweep that stops at the first failure it finds.
Poll1_Break ==
    /\ pc = "poll1"
    /\ idx <= Len(procs)
    /\ procs' = [procs EXCEPT ![idx] = PollHandle(procs[idx], os[idx])]
    /\ failure' = (failure \/ (/\ procs'[idx].returncode # None
                               /\ procs'[idx].returncode # Some(0)))
    /\ polled' = TRUE
    /\ swept' = swept \cup {idx}
    /\ IF failure'
       THEN pc' = "terminate" /\ idx' = 1
       ELSE pc' = pc /\ idx' = idx + 1
    /\ UNCHANGED << main_vars, precommit_vars, calls, ticks, on_status_raises, os, remaining_procs,
                    result, exc, last_report, launches, call_log >>

\* First sweep, one handle: proc.poll(); a non-zero returncode sets failure.
Poll1 ==
    /\ pc = "poll1"
    /\ idx <= Len(procs)
    /\ procs' = [procs EXCEPT ![idx] = PollHandle(procs[idx], os[idx])]
    /\ failure' = (failure \/ (/\ procs'[idx].returncode # None
                               /\ procs'[idx].returncode # Some(0)))
    /\ polled' = TRUE
    /\ swept' = swept \cup {idx}
    /\ idx' = idx + 1
    /\ UNCHANGED << main_vars, precommit_vars, calls, ticks, on_status_raises, pc, os, remaining_procs, result,
                    exc, last_report, launches, call_log >>

\* if failure: ... else fall through to the second sweep
FailureTest ==
    /\ pc = "poll1"
    /\ idx > Len(procs)
    /\ pc' = IF failure THEN "terminate" ELSE "poll2"
    /\ idx' = 1
    /\ UNCHANGED << main_vars, precommit_vars, calls, ticks, on_status_raises, procs, os, failure,
                    remaining_procs, result, exc, last_report, launches, call_log,
                    polled, swept >>

\* A failure branch that leaves the first handle out.
TerminateAll_SkipsFirst ==
    /\ pc = "terminate"
    /\ idx <= Len(procs)
    /\ IF idx = 1
       THEN UNCHANGED << procs, os >>
       ELSE /\ procs' = [procs EXCEPT
                            ![idx] = TerminateHandle(procs[idx], os[idx])]
            /\ os' = [os EXCEPT ![idx] = TerminateProcess(procs[idx], os[idx])]
    /\ idx' = idx + 1
    /\ UNCHANGED << main_vars, precommit_vars, calls, ticks, on_status_raises, pc, failure,
                    remaining_procs, result, exc, last_report, launches, call_log,
                    polled, swept >>

\* for proc in procs: proc.terminate()
TerminateAll ==
    /\ pc = "terminate"
    /\ idx <= Len(procs)
    /\ procs' = [procs EXCEPT ![idx] = TerminateHandle(procs[idx], os[idx])]
    /\ os' = [os EXCEPT ![idx] = TerminateProcess(procs[idx], os[idx])]
    /\ idx' = idx + 1
    /\ UNCHANGED << main_vars, precommit_vars, calls, ticks, on_status_raises, pc, failure, remaining_procs,
                    result, exc, last_report, launches, call_log, polled, swept >>

\* The number of handles whose exit status has been read and is not zero.
FailedCount ==
    Cardinality({i \in Handles : /\ procs[i].returncode # None
                                 /\ procs[i].returncode # Some(0)})

\* A failure branch that returns the number of failed handles.
ReturnFailure_Count ==
    /\ pc = "terminate"
    /\ idx > Len(procs)
    /\ result' = Some(FailedCount)
    /\ pc' = "return1"
    /\ UNCHANGED << main_vars, precommit_vars, calls, ticks, on_status_raises, idx, procs, os, failure,
                    remaining_procs, exc, last_report, launches, call_log, polled,
                    swept >>

\* print("Terminated all the processes."); return 1
ReturnFailure ==
    /\ pc = "terminate"
    /\ idx > Len(procs)
    /\ result' = Some(1)
    /\ pc' = "return1"
    /\ UNCHANGED << main_vars, precommit_vars, calls, ticks, on_status_raises, idx, procs, os, failure,
                    remaining_procs, exc, last_report, launches, call_log, polled,
                    swept >>

\* The return statement hands over to the finally block.
LeaveLoop ==
    /\ pc = "return1"
    /\ pc' = "finally"
    /\ idx' = 1
    /\ UNCHANGED << main_vars, precommit_vars, calls, ticks, on_status_raises, procs, os, failure,
                    remaining_procs, result, exc, last_report, launches, call_log,
                    polled, swept >>

\* Second sweep, one handle: proc.poll()
Poll2 ==
    /\ pc = "poll2"
    /\ idx <= Len(procs)
    /\ procs' = [procs EXCEPT ![idx] = PollHandle(procs[idx], os[idx])]
    /\ polled' = TRUE
    /\ idx' = idx + 1
    /\ UNCHANGED << main_vars, precommit_vars, calls, ticks, on_status_raises, pc, os, failure,
                    remaining_procs, result, exc, last_report, launches, call_log,
                    swept >>

\* A recount that counts the handles that have exited.
Recount_Terminal ==
    /\ pc = "poll2"
    /\ idx > Len(procs)
    /\ remaining_procs' = Len(procs) - CountRunning(procs)
    /\ pc' = "while"
    /\ UNCHANGED << main_vars, precommit_vars, calls, ticks, on_status_raises, idx, procs, os, failure,
                    result, exc, last_report, launches, call_log, polled, swept >>

\* remaining_procs = sum(1 for proc in procs if proc.returncode is None)
Recount ==
    /\ pc = "poll2"
    /\ idx > Len(procs)
    /\ remaining_procs' = CountRunning(procs)
    /\ pc' = "while"
    /\ UNCHANGED << main_vars, precommit_vars, calls, ticks, on_status_raises, idx, procs, os, failure,
                    result, exc, last_report, launches, call_log, polled, swept >>

\* A cleanup that walks the handles and terminates none.
Finally_Skip ==
    /\ pc = "finally"
    /\ idx <= Len(procs)
    /\ idx' = idx + 1
    /\ UNCHANGED << main_vars, precommit_vars, calls, ticks, on_status_raises, pc, procs, os, failure,
                    remaining_procs, result, exc, last_report, launches, call_log,
                    polled, swept >>

\* A cleanup that terminates every handle, whatever its returncode.
Finally_Unconditional ==
    /\ pc = "finally"
    /\ idx <= Len(procs)
    /\ procs' = [procs EXCEPT ![idx] = TerminateHandle(procs[idx], os[idx])]
    /\ os' = [os EXCEPT ![idx] = TerminateProcess(procs[idx], os[idx])]
    /\ idx' = idx + 1
    /\ UNCHANGED << main_vars, precommit_vars, calls, ticks, on_status_raises, pc, failure,
                    remaining_procs, result, exc, last_report, launches, call_log,
                    polled, swept >>

\* finally: for proc in procs: if proc.returncode is None: proc.terminate()
Finally ==
    /\ pc = "finally"
    /\ idx <= Len(procs)
    /\ IF procs[idx].returncode = None
       THEN /\ procs' = [procs EXCEPT
                            ![idx] = TerminateHandle(procs[idx], os[idx])]
            /\ os' = [os EXCEPT ![idx] = TerminateProcess(procs[idx], os[idx])]
       ELSE UNCHANGED << procs, os >>
    /\ idx' = idx + 1
    /\ UNCHANGED << main_vars, precommit_vars, calls, ticks, on_status_raises, pc, failure, remaining_procs,
                    result, exc, last_report, launches, call_log, polled, swept >>

\* The finally block is over: the value is returned or the exception leaves.
Exit ==
    /\ pc = "finally"
    /\ idx > Len(procs)
    /\ pc' = "done"
    /\ UNCHANGED << main_vars, precommit_vars, calls, ticks, on_status_raises, idx, procs, os, failure,
                    remaining_procs, result, exc, last_report, launches, call_log,
                    polled, swept >>

\* A launched process exits on its own, with the status of its behaviour.
TaskExit(i) ==
    /\ pc # "done"
    /\ os[i].state = "running"
    /\ calls[i] \in {"zero", "nonzero"}
    /\ os' = [os EXCEPT ![i].state = "exited",
                        ![i].exitcode = IF calls[i] = "zero" THEN 0 ELSE 1]
    /\ UNCHANGED << main_vars, precommit_vars, calls, ticks, on_status_raises, pc, idx, procs, failure,
                    remaining_procs, result, exc, last_report, launches, call_log,
                    polled, swept >>

\* A process that was sent SIGTERM dies of it, some time after the signal.
TaskKilled(i) ==
    /\ pc # "done"
    /\ os[i].state = "running"
    /\ os[i].signals > 0
    /\ os' = [os EXCEPT ![i].state = "exited", ![i].exitcode = 0 - SIGTERM]
    /\ UNCHANGED << main_vars, precommit_vars, calls, ticks, on_status_raises, pc, idx, procs, failure,
                    remaining_procs, result, exc, last_report, launches, call_log,
                    polled, swept >>

\* Whether Popen.kill() has been called on handle i: no statement of
\* _run_in_parallel calls it, the only signal it sends is that of terminate().
KillSent(i) == FALSE

Supervisor ==
    \/ Launch
    \/ LaunchRaises
    \/ EnterLoop
    \/ WhileTest
    \/ StatusUpdate
    \/ StatusUpdateRaises
    \/ SkipStatusUpdate
    \/ ResetNextPrint
    \/ Sleep
    \/ Poll1
    \/ FailureTest
    \/ TerminateAll
    \/ ReturnFailure
    \/ LeaveLoop
    \/ Poll2
    \/ Recount
    \/ Finally
    \/ Exit

Tasks ==
    \/ \E i \in 1..Len(calls) : TaskExit(i)
    \/ \E i \in 1..Len(calls) : TaskKilled(i)

Next == Supervisor \/ Tasks

Spec == Init /\ [][Next]_vars

\* The supervisor is a running thread: it always takes its next step. The
\* processes are under no obligation to exit.
FairSpec == Spec /\ WF_vars(Supervisor)

TypeOK ==
    /\ pc \in {"not_called", "launch", "while", "report", "reported",
               "sleep", "poll1",
               "terminate", "return1", "poll2", "finally", "done"}
    /\ Len(procs) <= Len(calls)
    /\ idx \in 1..(Len(calls) + 1)
    /\ result \in {None, Some(1)}
    /\ exc \in {"none", "launch", "callback"}
    /\ remaining_procs \in 0..Len(calls)
    /\ ticks \in 0..MaxTicks

(***************************************************************************)
(* main of update_to_aas_core_meta_codegen.py: a chain of stages, each of  *)
(* which must succeed for the next to run; the tests are run by            *)
(* _run_in_parallel, and the last stage creates a branch, commits and      *)
(* pushes.                                                                 *)
(***************************************************************************)

\* The state of _run_in_parallel.
run_vars == << calls, on_status_raises, pc, idx, procs, os, failure,
               remaining_procs, result, exc, last_report, launches, polled,
               swept, ticks, call_log >>

\* The stages that come before the push, in the order of main.
AllStages == << "branch", "no_changes", "regenerate", "reformat", "tests",
                "codegen_revision", "meta_revision" >>

\* A stage ends: it succeeded ("ok") and main goes on to nxt, or main
\* returns 1 ("fail"), or an exception leaves main ("raise").
StageEnds(out, name, nxt) ==
    /\ main_pc' = IF out = "ok" THEN nxt ELSE "exit"
    /\ main_passed' = IF out = "ok" THEN Append(main_passed, name)
                                    ELSE main_passed
    /\ main_result' = IF out = "fail" THEN Some(1) ELSE main_result
    /\ main_exc' = (out = "raise")
    /\ UNCHANGED pushed

\* main is started, and _run_in_parallel waits to be called by it.
MainInit ==
    /\ main_pc = "check_branch"
    /\ main_passed = << >>
    /\ main_result = None
    /\ main_exc = FALSE
    /\ pushed = FALSE
    /\ PrecommitIdle
    /\ calls \in UNION {[1..n -> Behaviours] : n \in 0..MaxTasks}
    /\ on_status_raises \in BOOLEAN
    /\ pc = "not_called"
    /\ idx = 1
    /\ procs = << >>
    /\ os = [i \in 1..Len(calls) |-> NotStarted]
    /\ failure = FALSE
    /\ remaining_procs = 0
    /\ result = None
    /\ exc = "none"
    /\ last_report = None
    /\ launches = 0
    /\ polled = FALSE
    /\ swept = {}
    /\ ticks = 0
    /\ call_log = << >>

\* our_branch = git rev-parse ...; if our_branch != expected_our_branch: return 1
CheckBranch ==
    /\ main_pc = "check_branch"
    /\ \E out \in {"ok", "fail", "raise"} :
           StageEnds(out, "branch", "check_files")
    /\ UNCHANGED << run_vars, precommit_vars >>

\* exit_code = _make_sure_no_changed_files(...); if not None: return exit_code
CheckFiles ==
    /\ main_pc = "check_files"
    /\ \E out \in {"ok", "fail", "raise"} :
           StageEnds(out, "no_changes", "regenerate")
    /\ UNCHANGED << run_vars, precommit_vars >>

\* exit_code = _regenerate_code(...): subprocess.run(check=True) raises when
\* the code generator exits with a non-zero status.
Regenerate ==
    /\ main_pc = "regenerate"
    /\ \E out \in {"ok", "raise"} : StageEnds(out, "regenerate", "reformat")
    /\ UNCHANGED << run_vars, precommit_vars >>

\* _reformat_code(...): subprocess.check_call raises when precommit fails.
Reformat ==
    /\ main_pc = "reformat"
    /\ \E out \in {"ok", "raise"} : StageEnds(out, "reformat", "run_tests")
    /\ UNCHANGED << run_vars, precommit_vars >>

\* exit_code = _run_tests_and_rerecord(...): calls _run_in_parallel.
RunTests ==
    /\ main_pc = "run_tests"
    /\ pc = "not_called"
    /\ main_pc' = "tests_running"
    /\ pc' = "launch"
    /\ UNCHANGED << main_passed, main_result, main_exc, pushed,
                    precommit_vars, calls, on_status_raises, idx, procs, os,
                    failure, remaining_procs, result, exc, last_report,
                    launches, polled, swept, ticks, call_log >>

\* _run_in_parallel is over: its error leaves main, its error code is
\* returned by main, or the tests count as passed.
TestsReturn ==
    /\ main_pc = "tests_running"
    /\ pc = "done"
    /\ StageEnds(IF exc # "none" THEN "raise"
                 ELSE IF result # None THEN "fail" ELSE "ok",
                 "tests", "codegen_revision")
    /\ UNCHANGED << run_vars, precommit_vars >>

\* aas_core_codegen_revision = _get_codegen_revision(...); None: return 1
CodegenRevision ==
    /\ main_pc = "codegen_revision"
    /\ \E out \in {"ok", "fail"} :
           StageEnds(out, "codegen_revision", "meta_revision")
    /\ UNCHANGED << run_vars, precommit_vars >>

\* aas_core_meta_revision = _get_meta_model_revision(...); None: return 1
MetaRevision ==
    /\ main_pc = "meta_revision"
    /\ \E out \in {"ok", "fail"} : StageEnds(out, "meta_revision", "push")
    /\ UNCHANGED << run_vars, precommit_vars >>

\* _create_branch_commit_and_push(...); return 0
Push ==
    /\ main_pc = "push"
    /\ \E out \in {"ok", "raise"} :
           /\ pushed' = (out = "ok")
           /\ main_result' = IF out = "ok" THEN Some(0) ELSE main_result
           /\ main_exc' = (out = "raise")
    /\ main_pc' = "exit"
    /\ UNCHANGED << main_passed, run_vars, precommit_vars >>

MainStages ==
    \/ CheckBranch
    \/ CheckFiles
    \/ Regenerate
    \/ Reformat
    \/ RunTests
    \/ TestsReturn
    \/ CodegenRevision
    \/ MetaRevision
    \/ Push

MainNext == MainStages \/ Supervisor \/ Tasks

MainSpec == MainInit /\ [][MainNext]_vars

(***************************************************************************)
(* main of precommit.py: six steps in a fixed order, each run when it is   *)
(* selected and not skipped; every command goes through call_and_report,   *)
(* and the first command that fails ends main.                             *)
(***************************************************************************)

\* The largest number of modules with a doctest that is explored.
MaxDoctestFiles == 2

\* The exit codes that a command is given to exit with.
ExitCodes == {0, 1, 2}

\* class Step, in the order in which main goes through the steps.
Steps == << "reformat", "mypy", "pylint", "test", "doctest",
            "check-init-and-pyproject-consistent" >>

StepSet == {Steps[k] : k \in 1..Len(Steps)}

StepIndex(s) == CHOOSE k \in 1..Len(Steps) : Steps[k] = s

\* selects = [Step(value) for value in args.select]
\*           if args.select is not None else [value for value in Step]
selects == IF args_select = None THEN StepSet ELSE args_select[1]

\* skips = [Step(value) for value in args.skip] if args.skip is not None else []
skips == IF args_skip = None THEN {} ELSE args_skip[1]

\* How many commands the body of a step runs when none of them fails.
NumCommands(s) ==
    CASE s = "test" -> 2
      [] s = "doctest" -> 1 + doctest_files
      [] OTHER -> 1

\* The verb that the n-th command of a step is reported with.
Verb(s, n) ==
    CASE s = "reformat" -> IF overwrite THEN "black" ELSE "check with black"
      [] s = "mypy" -> "mypy"
      [] s = "pylint" -> "pylint"
      [] s = "test" -> IF n = 1 THEN "execute unit tests"
                                ELSE "report the coverage"
      [] s = "doctest" -> "doctest"
      [] OTHER -> "check that __init__.py and pyproject.toml are consistent"

\* call_and_report: exit_code = subprocess.call(cmd, ...); the failure is
\* reported when exit_code != 0; return exit_code
call_and_report(code) == code

\* The parsed value of --select or of --skip: absent, or one step or more.
StepArgs == {None} \cup {Some(S) : S \in (SUBSET StepSet) \ {{}}}

\* args = parser.parse_args(); overwrite, selects and skips are read from it.
PrecommitInit ==
    /\ args_select \in StepArgs
    /\ args_skip \in StepArgs
    /\ overwrite \in BOOLEAN
    /\ doctest_files \in 0..MaxDoctestFiles
    /\ p_pc = "step"
    /\ p_step = 1
    /\ p_cmd = 1
    /\ executed = {}
    /\ cmd_log = << >>
    /\ exit_code = 0
    /\ p_result = None
    /\ MainIdle
    /\ calls = << >>
    /\ on_status_raises = FALSE
    /\ pc = "not_called"
    /\ idx = 1
    /\ procs = << >>
    /\ os = << >>
    /\ failure = FALSE
    /\ remaining_procs = 0
    /\ result = None
    /\ exc = "none"
    /\ last_report = None
    /\ launches = 0
    /\ polled = FALSE
    /\ swept = {}
    /\ ticks = 0
    /\ call_log = << >>

\* A step test that looks at --select only.
StepTest_IgnoresSkip ==
    /\ p_pc = "step"
    /\ p_step <= Len(Steps)
    /\ IF Steps[p_step] \in selects
       THEN /\ executed' = executed \cup {Steps[p_step]}
            /\ p_pc' = "cmd"
            /\ p_cmd' = 1
            /\ UNCHANGED p_step
       ELSE /\ p_step' = p_step + 1
            /\ UNCHANGED << executed, p_pc, p_cmd >>
    /\ UNCHANGED << args_select, args_skip, overwrite, doctest_files,
                    cmd_log, exit_code, p_result, main_vars, run_vars >>

\* if Step.X in selects and Step.X not in skips: ... else: print("Skipped ...")
StepTest ==
    /\ p_pc = "step"
    /\ p_step <= Len(Steps)
    /\ IF Steps[p_step] \in selects /\ Steps[p_step] \notin skips
       THEN /\ executed' = executed \cup {Steps[p_step]}
            /\ p_pc' = "cmd"
            /\ p_cmd' = 1
            /\ UNCHANGED p_step
       ELSE /\ p_step' = p_step + 1
            /\ UNCHANGED << executed, p_pc, p_cmd >>
    /\ UNCHANGED << args_select, args_skip, overwrite, doctest_files,
                    cmd_log, exit_code, p_result, main_vars, run_vars >>

\* A command whose failure does not end main.
RunCommand_KeepsGoing ==
    /\ p_pc = "cmd"
    /\ \E code \in ExitCodes :
           /\ exit_code' = call_and_report(code)
           /\ cmd_log' = Append(cmd_log,
                                [step |-> Steps[p_step], n |-> p_cmd,
                                 verb |-> Verb(Steps[p_step], p_cmd),
                                 code |-> code,
                                 returned |-> call_and_report(code)])
    /\ IF p_cmd < NumCommands(Steps[p_step])
       THEN /\ p_cmd' = p_cmd + 1
            /\ UNCHANGED << p_pc, p_step, p_result >>
       ELSE /\ p_step' = p_step + 1
            /\ p_pc' = "step"
            /\ UNCHANGED << p_cmd, p_result >>
    /\ UNCHANGED << args_select, args_skip, overwrite, doctest_files,
                    executed, main_vars, run_vars >>

\* exit_code = call_and_report(...); if exit_code != 0: return 1
RunCommand ==
    /\ p_pc = "cmd"
    /\ \E code \in ExitCodes :
           /\ exit_code' = call_and_report(code)
           /\ cmd_log' = Append(cmd_log,
                                [step |-> Steps[p_step], n |-> p_cmd,
                                 verb |-> Verb(Steps[p_step], p_cmd),
                                 code |-> code,
                                 returned |-> call_and_report(code)])
    /\ IF exit_code' # 0
       THEN /\ p_result' = Some(1)
            /\ p_pc' = "exit"
            /\ UNCHANGED << p_step, p_cmd >>
       ELSE IF p_cmd < NumCommands(Steps[p_step])
       THEN /\ p_cmd' = p_cmd + 1
            /\ UNCHANGED << p_pc, p_step, p_result >>
       ELSE /\ p_step' = p_step + 1
            /\ p_pc' = "step"
            /\ UNCHANGED << p_cmd, p_result >>
    /\ UNCHANGED << args_select, args_skip, overwrite, doctest_files,
                    executed, main_vars, run_vars >>

\* return 0
ReturnZero ==
    /\ p_pc = "step"
    /\ p_step > Len(Steps)
    /\ p_result' = Some(0)
    /\ p_pc' = "exit"
    /\ UNCHANGED << args_select, args_skip, overwrite, doctest_files, p_step,
                    p_cmd, executed, cmd_log, exit_code, main_vars, run_vars >>

PrecommitNext ==
    \/ StepTest
    \/ RunCommand
    \/ ReturnZero

PrecommitSpec == PrecommitInit /\ [][PrecommitNext]_vars

(***************************************************************************)
(* The outcome of the call.                                                *)
(***************************************************************************)

\* The call has returned a value to its caller.
Returned == pc = "done" /\ exc = "none"

\* The exit status of handle i has been read and is not zero.
ObservedFailed(i) ==
    /\ procs[i].returncode # None
    /\ procs[i].returncode # Some(0)

\* The exit status of handle i has not been read.
ObservedRunning(i) == procs[i].returncode = None

\* C1: when the call returns, the failure flag is set exactly if some handle
\* was seen with a non-zero exit status, and the call returns None only if
\* every launched task was seen to exit with status zero.
C1_SuccessOnlyIfAllZero ==
    Returned =>
        /\ failure <=> (\E i \in Handles : ObservedFailed(i))
        /\ result = None => \A i \in Handles : procs[i].returncode = Some(0)

\* C2: when the failure branch has run, every handle whose exit status is
\* still unread has been sent terminate, and the signal has reached its
\* process; no handle is left out, whichever tick found the failure.
C2_FailFastCancelsAll ==
    pc = "return1" =>
        \A i \in Handles :
            ObservedRunning(i) =>
                procs[i].terminate_calls >= 1 /\ os[i].signals >= 1

\* A task failed before the first tick polled anything, and its siblings,
\* still running, were signalled in that first tick.
C2_Witness ==
    /\ pc = "return1"
    /\ ticks = 1
    /\ Len(procs) >= 2
    /\ ObservedFailed(Len(procs))
    /\ \A i \in 1..(Len(procs) - 1) :
           ObservedRunning(i) /\ os[i].signals >= 1

\* Exactly one task of the batch exits with a non-zero status and the
\* others never exit on their own.
OneFailsOthersForever ==
    /\ Len(calls) >= 2
    /\ \E j \in 1..Len(calls) :
           /\ calls[j] = "nonzero"
           /\ \A i \in 1..Len(calls) : i # j => calls[i] = "forever"

\* C3: when exactly one task fails and the others never exit on their own,
\* every other handle has received exactly one terminate call by the time
\* the call returns, the failure branch and the finally block taken together.
C3_ExactlyOneCancel ==
    (Returned /\ OneFailsOthersForever /\ result = Some(1)) =>
        \A i \in Handles :
            calls[i] = "forever" => procs[i].terminate_calls = 1

\* C4: the call returns a value only when the exit status of every handle
\* has been read.
C4_ReturnsOnlyWhenAllTerminal ==
    Returned => \A i \in Handles : ~ObservedRunning(i)

\* Every task of the batch exits with status zero.
AllZero == \A i \in 1..Len(calls) : calls[i] = "zero"

\* C5: in a batch whose tasks all exit with status zero, no handle is ever
\* sent terminate, in the loop or in the finally block, and the call returns
\* None.
C5_AllZeroNoCancel ==
    (AllZero /\ exc = "none") =>
        /\ \A i \in Handles :
               procs[i].terminate_calls = 0 /\ os[i].signals = 0
        /\ pc = "done" => result = None /\ ~failure

\* A full batch of tasks that all exited with zero, and the call has returned.
C5_Witness ==
    /\ Returned
    /\ AllZero
    /\ Len(procs) = MaxTasks
    /\ result = None
    /\ \A i \in Handles : procs[i].returncode = Some(0)

\* C6: when a launcher raises, the error leaves the call and no value is
\* returned: the raising launcher is the last one called, no handle is polled
\* by the supervisor, nothing is reported, and every handle launched before
\* it has been sent terminate once the error reaches the caller.
C6_LaunchErrorAborts ==
    exc = "launch" =>
        /\ pc \in {"finally", "done"}
        /\ launches = Len(procs) + 1
        /\ calls[launches] = "raise"
        /\ ~polled
        /\ ticks = 0
        /\ last_report = None
        /\ pc = "done" =>
               \A i \in Handles : procs[i].terminate_calls = 1

\* The last launcher of a full batch raised, and the error has reached the
\* caller after the handles launched before it were sent terminate.
C6_Witness ==
    /\ pc = "done"
    /\ exc = "launch"
    /\ Len(calls) = MaxTasks
    /\ Len(procs) = MaxTasks - 1
    /\ \A i \in Handles : procs[i].terminate_calls = 1

\* Some handle is sent terminate in this step.
TerminateSent ==
    \E i \in Handles : procs'[i].terminate_calls > procs[i].terminate_calls

\* C7: terminate is never sent from inside a poll sweep, and the failure
\* branch sends it only after the first sweep of the tick has polled every
\* handle, so that the handles polled before the failing one are reached too.
C7_PollBeforeAct ==
    [][TerminateSent =>
          /\ pc \notin {"poll1", "poll2"}
          /\ pc = "terminate" => swept = Handles]_vars

\* The failure was found on the last handle of the sweep, and the handles
\* polled before it, still running, have been signalled in the same tick.
C7_Witness ==
    /\ pc = "return1"
    /\ Len(procs) = MaxTasks
    /\ ObservedFailed(Len(procs))
    /\ \A i \in 1..(Len(procs) - 1) :
           /\ calls[i] = "forever"
           /\ ObservedRunning(i)
           /\ os[i].signals = 1

\* C8 as stated: the failure result is the number of tasks seen with a
\* non-zero exit status.
C8_ResultIsFailureCount ==
    (pc = "return1" /\ result # None) => result = Some(FailedCount)

\* C8 as amended: when the first sweep of a tick has seen a task with a
\* non-zero exit status, the call returns the error code 1, however many
\* tasks were seen to fail; and it returns 1 in no other case.
C8_ResultIsOne ==
    /\ (failure /\ pc \in {"return1", "finally", "done"}) =>
           result = Some(1) /\ exc = "none"
    /\ result # None => result = Some(1) /\ failure

\* Two tasks were seen to fail, and the call has returned 1.
C8_Witness ==
    /\ Returned
    /\ FailedCount >= 2
    /\ Cardinality({i \in 1..Len(calls) : calls[i] = "nonzero"}) >= 2
    /\ result = Some(1)

\* on_status_update is called in this step.
Notifies == pc = "report" /\ pc' \in {"reported", "finally"}

\* C9: the count given to on_status_update is the number of handles whose
\* exit status has not been read, it is at most the batch size, and it is
\* never more than the count given the time before.
C9_RemainingCount ==
    [][Notifies =>
          /\ last_report' # None
          /\ last_report'[1] = CountRunning(procs)
          /\ last_report'[1] <= Len(calls)
          /\ last_report # None => last_report'[1] <= last_report[1]]_vars

\* A later tick reported fewer running handles than the batch holds.
C9_Witness ==
    /\ pc = "reported"
    /\ ticks >= 2
    /\ last_report # None
    /\ last_report[1] < Len(procs)
    /\ last_report[1] = CountRunning(procs)

\* Some launched task has exited on its own with a non-zero status.
SomeTaskFailed ==
    \E i \in 1..Len(calls) : os[i].state = "exited" /\ os[i].exitcode = 1

\* C10: with the supervisor taking its steps, once every launcher has
\* succeeded and some task has exited with a non-zero status, the call
\* returns 1, unless on_status_update raises.
C10_FailureLeadsToFailureReturn ==
    (pc # "launch" /\ exc = "none" /\ SomeTaskFailed)
        ~> (pc = "done" /\ (result = Some(1) \/ exc # "none"))

\* The second half of C10, which holds: once every launched task has
\* exited and the launches are over, the call comes to its end.
AllExitedLeadsToDone ==
    (pc # "launch" /\ \A i \in 1..Len(calls) : os[i].state # "running")
        ~> (pc = "done")

\* C11: a handle that was sent terminate and whose process has not exited
\* is sent kill before the supervisor gives up on it, so that no cancelled
\* process is left running when the call ends.
C11_CancelEscalates ==
    pc = "done" =>
        \A i \in Handles :
            (os[i].signals >= 1 /\ os[i].state = "running") => KillSent(i)

\* C12: for a batch of zero tasks the body of the polling loop never runs:
\* no tick, no sleep, no poll, no notification and no terminate, and the call
\* returns None.
C12_EmptyBatch ==
    Len(calls) = 0 =>
        /\ pc \in {"launch", "while", "finally", "done"}
        /\ ticks = 0
        /\ ~polled
        /\ last_report = None
        /\ procs = << >>
        /\ exc = "none"
        /\ result = None
        /\ ~failure

\* The call on the empty batch has returned None.
C12_Witness ==
    /\ Len(calls) = 0
    /\ Returned
    /\ result = None
    /\ ticks = 0

\* C16: whenever the call ends, by returning None, by returning 1, or with
\* the error of a launcher or of on_status_update, every process it launched
\* has been seen to have exited or has been sent terminate: its exit status
\* has been read, or SIGTERM has been sent to it.
C16_NoLeakOnExit ==
    pc = "done" =>
        \A i \in Handles :
            \/ procs[i].returncode # None
            \/ procs[i].terminate_calls >= 1 /\ os[i].signals >= 1

\* on_status_update raised while a full batch was running, and the error
\* left the call after every handle was sent terminate.
C16_Witness ==
    /\ pc = "done"
    /\ exc = "callback"
    /\ Len(procs) = MaxTasks
    /\ \A i \in Handles :
           ObservedRunning(i) /\ procs[i].terminate_calls = 1

\* C13: the launchers are called in the order of the input sequence, each
\* at most once and, when none raises, each exactly once; every launch comes
\* before the first poll and before the first tick, whatever the number of
\* tasks already running.
C13_EagerOrderedLaunch ==
    /\ call_log = [k \in 1..Len(call_log) |-> k]
    /\ Len(call_log) = launches
    /\ launches <= Len(calls)
    /\ pc = "launch" => ~polled /\ ticks = 0
    /\ (pc # "launch" /\ exc # "launch") =>
           /\ launches = Len(calls)
           /\ Len(procs) = Len(calls)

\* A full batch has been launched and all of its processes run at the same
\* time, before anything was polled.
C13_Witness ==
    /\ pc = "while"
    /\ ticks = 0
    /\ ~polled
    /\ call_log = [k \in 1..MaxTasks |-> k]
    /\ Len(procs) = MaxTasks
    /\ \A i \in Handles : os[i].state = "running"

\* C17: the push stage is reached only when every stage before it has
\* succeeded, in the order of main: branch, no modified files, code
\* generation, reformatting, the parallel tests without failure, and the two
\* revisions; and nothing is pushed when a test module exited with a
\* non-zero status.
C17_PushOnlyAfterAllStages ==
    (main_pc = "push" \/ pushed) =>
        /\ main_passed = AllStages
        /\ Returned
        /\ result = None
        /\ \A i \in Handles : ~ObservedFailed(i)

\* The part of C17 that holds: the push stage comes after all the stages
\* before it, and after _run_in_parallel returned None.
PushAfterStagesInOrder ==
    (main_pc = "push" \/ pushed) =>
        /\ main_passed = AllStages
        /\ Returned
        /\ result = None

\* The step is selected and not skipped.
Wanted(st) == st \in selects /\ st \notin skips

\* main has evaluated the test of the k-th step.
Reached(k) == k < p_step \/ (k = p_step /\ p_pc # "step")

\* No command of a step before the k-th exited with a non-zero status.
NoEarlierFailure(k) ==
    \A j \in 1..Len(cmd_log) :
        cmd_log[j].code # 0 => StepIndex(cmd_log[j].step) >= k

\* C14 as stated: when main is over, the commands of a step have been
\* executed exactly if the step is selected and is not named in --skip.
C14_ExecutedIffSelected ==
    p_pc = "exit" =>
        \A st \in StepSet : st \in executed <=> Wanted(st)

\* C14 as amended: the commands of a step are executed exactly if the step
\* is selected, is not named in --skip, and no command of an earlier step
\* exited with a non-zero status; a step named in both --select and --skip
\* is never executed.
C14_ExecutedIffSelectedAndReached ==
    /\ \A k \in 1..Len(Steps) :
           Steps[k] \in executed <=> (Reached(k) /\ Wanted(Steps[k]))
    /\ p_pc = "exit" =>
           \A k \in 1..Len(Steps) :
               Steps[k] \in executed <=>
                   (Wanted(Steps[k]) /\ NoEarlierFailure(k))

\* main returned 0 after running pylint, which was selected, and without
\* running mypy, which was both selected and skipped.
C14_Witness ==
    /\ p_pc = "exit"
    /\ p_result = Some(0)
    /\ args_select = Some({"mypy", "pylint"})
    /\ args_skip = Some({"mypy"})
    /\ executed = {"pylint"}

\* C15: call_and_report returns 1 when the command exits with a non-zero
\* exit code and 0 otherwise.
C15_ReturnsOneOnError ==
    \A j \in 1..Len(cmd_log) :
        cmd_log[j].returned = IF cmd_log[j].code # 0 THEN 1 ELSE 0

\* C18: the commands run in the fixed order of the steps; a command that
\* exits with a non-zero status is the last one run and makes main return
\* 1; main returns 0 exactly if every command it ran exited with zero.
C18_FailFastInStepOrder ==
    /\ \A j \in 1..Len(cmd_log) : \A k \in 1..Len(cmd_log) :
           j < k =>
               \/ StepIndex(cmd_log[j].step) < StepIndex(cmd_log[k].step)
               \/ /\ cmd_log[j].step = cmd_log[k].step
                  /\ cmd_log[j].n < cmd_log[k].n
    /\ \A j \in 1..Len(cmd_log) :
           cmd_log[j].code # 0 =>
               /\ j = Len(cmd_log)
               /\ p_pc = "exit"
               /\ p_result = Some(1)
    /\ p_pc = "exit" =>
           /\ p_result \in {Some(0), Some(1)}
           /\ p_result = Some(0) <=>
                  \A j \in 1..Len(cmd_log) : cmd_log[j].code = 0
    /\ p_pc # "exit" => p_result = None

\* The second command of the test step failed after three steps passed:
\* main returned 1 and ran neither the doctests nor the consistency check.
C18_Witness ==
    /\ p_pc = "exit"
    /\ p_result = Some(1)
    /\ args_select = None
    /\ args_skip = None
    /\ Len(cmd_log) = 5
    /\ cmd_log[5].verb = "report the coverage"
    /\ cmd_log[5].code = 2
    /\ executed = {"reformat", "mypy", "pylint", "test"}

====
